---- MODULE Spec2Model ----
(***************************************************************************)
(* Model of bitcoinMessageFinder (src/src/main.rs).                        *)
(*                                                                         *)
(* Strings are sequences of Unicode scalar values (Rust `char`), byte      *)
(* vectors are sequences of 0..255.  Option<T> is a record                 *)
(* [some, val]; Result<T, E> is a record [ok, val].                        *)
(*                                                                         *)
(* Three specifications share the variables:                               *)
(*   SpecExtract  extract_hidden_message applied to bounded hex strings    *)
(*   SpecScan     check_transaction_for_messages applied to bounded        *)
(*                transactions                                             *)
(*   Spec         the control flow of main()                               *)
(***************************************************************************)
EXTENDS Integers, Sequences, FiniteSets, TLC

VARIABLES
    pc,          \* position of the running function
    args_len,    \* args.len() in main
    build,       \* "debug" or "release": whether overflow checks are compiled in
    fetches,     \* number of calls of fetch_block_data so far
    block,       \* Option<Block>: the block bound by `Ok(block)` in main
    tx_num,      \* Option<String>: the line read from stdin
    selected_tx, \* Option<Transaction>: the transaction handed to the scanner
    scans,       \* number of calls of check_transaction_for_messages so far
    messages,    \* Vec<String> returned by check_transaction_for_messages
    stdout,      \* what was printed to standard output, in order
    stderr,      \* what was printed to standard error, in order
    hex_data,    \* argument of extract_hidden_message (SpecExtract)
    extracted    \* Option<String> returned by extract_hidden_message (SpecExtract)

vars == <<pc, args_len, build, fetches, block, tx_num, selected_tx, scans,
          messages, stdout, stderr, hex_data, extracted>>

----------------------------------------------------------------------------
(* Bounds of the model *)

MaxHexLen == 4
MaxFields == 3
MaxTx == 2

\* Width of usize in the model.  The targets of the program have 64 bits;
\* the width is scaled down so that 2^UsizeBits is a TLC integer.
UsizeBits == 16

----------------------------------------------------------------------------
(* Option and Result values *)

None == [some |-> FALSE]

Some(v) == [some |-> TRUE, val |-> v]

Err == [ok |-> FALSE]

Ok(v) == [ok |-> TRUE, val |-> v]

\* All sequences over S of length at most n.
SeqUpTo(S, n) == UNION {[1..k -> S] : k \in 0..n}

----------------------------------------------------------------------------
(* hex::decode (hex crate, called at main.rs:81) *)

\* hex_val without the upper-case arm.
hex_val_lower_only(c) ==
    IF c >= 97 /\ c <= 102 THEN c - 97 + 10
    ELSE IF c >= 48 /\ c <= 57 THEN c - 48
    ELSE -1

\* val(c): the value of one hex digit, or -1 for InvalidHexCharacter.
\*   b'A'..=b'F' => c - b'A' + 10, b'a'..=b'f' => c - b'a' + 10,
\*   b'0'..=b'9' => c - b'0', _ => Err
hex_val(c) ==
    IF c >= 65 /\ c <= 70 THEN c - 65 + 10
    ELSE IF c >= 97 /\ c <= 102 THEN c - 97 + 10
    ELSE IF c >= 48 /\ c <= 57 THEN c - 48
    ELSE -1

\* Vec::<u8>::from_hex: OddLength when len % 2 # 0, otherwise every pair
\* (hi, lo) becomes hi << 4 | lo; the first invalid digit fails the whole
\* decode.
hex_decode(hex) ==
    IF Len(hex) % 2 # 0 THEN Err
    ELSE IF \E i \in 1..Len(hex) : hex_val(hex[i]) = -1 THEN Err
    ELSE Ok([k \in 1..(Len(hex) \div 2) |->
                hex_val(hex[2 * k - 1]) * 16 + hex_val(hex[2 * k])])

----------------------------------------------------------------------------
(* String::from_utf8_lossy (std, called at main.rs:82) *)

REPLACEMENT_CHARACTER == 65533

IsCont(b) == b >= 128 /\ b <= 191

\* Width of the UTF-8 sequence a first byte announces (0: not a first byte).
Utf8CharWidth(b) ==
    IF b < 128 THEN 1
    ELSE IF b >= 194 /\ b <= 223 THEN 2
    ELSE IF b >= 224 /\ b <= 239 THEN 3
    ELSE IF b >= 240 /\ b <= 244 THEN 4
    ELSE 0

\* Whether b1 may follow the first byte b0 of a 3- or 4-byte sequence.
SecondOk(b0, b1) ==
    IF b0 = 224 THEN b1 >= 160 /\ b1 <= 191
    ELSE IF b0 = 237 THEN b1 >= 128 /\ b1 <= 159
    ELSE IF b0 = 240 THEN b1 >= 144 /\ b1 <= 191
    ELSE IF b0 = 244 THEN b1 >= 128 /\ b1 <= 143
    ELSE IsCont(b1)

\* One step of Utf8Chunks at position i of data: the decoded char and the
\* number of bytes consumed.  A maximal invalid prefix becomes one U+FFFD.
Utf8Step(data, i) ==
    LET n == Len(data)
        b0 == data[i]
        w == Utf8CharWidth(b0)
        bad(k) == [ch |-> REPLACEMENT_CHARACTER, used |-> k]
    IN  IF w = 1 THEN [ch |-> b0, used |-> 1]
        ELSE IF w = 0 THEN bad(1)
        ELSE IF w = 2 THEN
            IF i + 1 <= n /\ IsCont(data[i + 1])
            THEN [ch |-> (b0 % 32) * 64 + (data[i + 1] % 64), used |-> 2]
            ELSE bad(1)
        ELSE IF ~(i + 1 <= n /\ SecondOk(b0, data[i + 1])) THEN bad(1)
        ELSE IF ~(i + 2 <= n /\ IsCont(data[i + 2])) THEN bad(2)
        ELSE IF w = 3 THEN
            [ch |-> (b0 % 16) * 4096 + (data[i + 1] % 64) * 64 + (data[i + 2] % 64),
             used |-> 3]
        ELSE IF ~(i + 3 <= n /\ IsCont(data[i + 3])) THEN bad(3)
        ELSE [ch |-> (b0 % 8) * 262144 + (data[i + 1] % 64) * 4096
                       + (data[i + 2] % 64) * 64 + (data[i + 3] % 64),
              used |-> 4]

RECURSIVE Utf8From(_, _)
Utf8From(data, i) ==
    IF i > Len(data) THEN <<>>
    ELSE LET s == Utf8Step(data, i)
         IN  <<s.ch>> \o Utf8From(data, i + s.used)

from_utf8_lossy(data) == Utf8From(data, 1)

----------------------------------------------------------------------------
(* main.rs:76-88 *)

\* char::is_ascii
is_ascii(c) == c <= 127

\* is_ascii_control that forgets DEL.
is_ascii_control_no_del(c) == c <= 31

\* char::is_ascii_control: 0..=31 and 127
is_ascii_control(c) == c <= 31 \/ c = 127

is_printable_ascii(s) ==
    \A i \in 1..Len(s) : is_ascii(s[i]) /\ ~is_ascii_control(s[i])

\* extract_hidden_message that also drops the empty message.
extract_hidden_message_nonempty(hex) ==
    LET data == hex_decode(hex)
    IN  IF ~data.ok THEN None
        ELSE LET message == from_utf8_lossy(data.val)
             IN  IF message # <<>> /\ is_printable_ascii(message)
                 THEN Some(message) ELSE None

extract_hidden_message(hex) ==
    LET data == hex_decode(hex)
    IN  IF ~data.ok THEN None
        ELSE LET message == from_utf8_lossy(data.val)
             IN  IF is_printable_ascii(message) THEN Some(message) ELSE None

----------------------------------------------------------------------------
(* String literals of main.rs, as sequences of char codes *)

\* "Coinbase: " (main.rs:97)
LabelCoinbase == <<67, 111, 105, 110, 98, 97, 115, 101, 58, 32>>

\* "ScriptSig: " (main.rs:104)
LabelScriptSig == <<83, 99, 114, 105, 112, 116, 83, 105, 103, 58, 32>>

\* "OP_RETURN: " (main.rs:116)
LabelOpReturn == <<79, 80, 95, 82, 69, 84, 85, 82, 78, 58, 32>>

\* "ScriptPubKey: " (main.rs:120)
LabelScriptPubKey == <<83, 99, 114, 105, 112, 116, 80, 117, 98, 75, 101, 121, 58, 32>>

\* "nulldata" (main.rs:114)
Nulldata == <<110, 117, 108, 108, 100, 97, 116, 97>>

----------------------------------------------------------------------------
(* check_transaction_for_messages, main.rs:90-128 *)

\* ScanVin that moves on to the next input when the coinbase field fails.
ScanVin_skip_on_failure(vin, msgs) ==
    LET c == IF vin.coinbase.some
             THEN extract_hidden_message(vin.coinbase.val) ELSE None
        afterCoinbase == IF c.some THEN Append(msgs, LabelCoinbase \o c.val)
                         ELSE msgs
        s == IF vin.script_sig.some /\ vin.script_sig.val.hex.some
             THEN extract_hidden_message(vin.script_sig.val.hex.val) ELSE None
    IN  IF vin.coinbase.some /\ ~c.some THEN msgs
        ELSE IF s.some THEN Append(afterCoinbase, LabelScriptSig \o s.val)
        ELSE afterCoinbase

\* Body of `for vin in &tx.vin` (main.rs:95-107) for one input.
ScanVin(vin, msgs) ==
    LET c == IF vin.coinbase.some
             THEN extract_hidden_message(vin.coinbase.val) ELSE None
        afterCoinbase == IF c.some THEN Append(msgs, LabelCoinbase \o c.val)
                         ELSE msgs
        s == IF vin.script_sig.some /\ vin.script_sig.val.hex.some
             THEN extract_hidden_message(vin.script_sig.val.hex.val) ELSE None
    IN  IF s.some THEN Append(afterCoinbase, LabelScriptSig \o s.val)
        ELSE afterCoinbase

\* ScanVout that takes an absent classification tag for "nulldata".
ScanVout_absent_is_nulldata(vout, msgs) ==
    IF ~vout.script_pub_key.some THEN msgs
    ELSE LET spk == vout.script_pub_key.val
         IN  IF ~spk.hex.some THEN msgs
             ELSE LET m == extract_hidden_message(spk.hex.val)
                  IN  IF ~spk.script_type.some \/ spk.script_type.val = Nulldata
                      THEN IF m.some THEN Append(msgs, LabelOpReturn \o m.val)
                           ELSE msgs
                      ELSE IF m.some THEN Append(msgs, LabelScriptPubKey \o m.val)
                           ELSE msgs

\* Body of `for vout in &tx.vout` (main.rs:112-124) for one output.
ScanVout(vout, msgs) ==
    IF ~vout.script_pub_key.some THEN msgs
    ELSE LET spk == vout.script_pub_key.val
         IN  IF ~spk.hex.some THEN msgs
             ELSE LET m == extract_hidden_message(spk.hex.val)
                  IN  IF spk.script_type.some /\ spk.script_type.val = Nulldata
                      THEN IF m.some THEN Append(msgs, LabelOpReturn \o m.val)
                           ELSE msgs
                      ELSE IF m.some THEN Append(msgs, LabelScriptPubKey \o m.val)
                           ELSE msgs

RECURSIVE ScanVins(_, _, _)
ScanVins(vin, i, msgs) ==
    IF i > Len(vin) THEN msgs
    ELSE ScanVins(vin, i + 1, ScanVin(vin[i], msgs))

RECURSIVE ScanVouts(_, _, _)
ScanVouts(vout, i, msgs) ==
    IF i > Len(vout) THEN msgs
    ELSE ScanVouts(vout, i + 1, ScanVout(vout[i], msgs))

\* check_transaction_for_messages with the two loops exchanged.
check_transaction_outputs_first(tx) ==
    ScanVins(tx.vin, 1, ScanVouts(tx.vout, 1, <<>>))

check_transaction_for_messages(tx) ==
    ScanVouts(tx.vout, 1, ScanVins(tx.vin, 1, <<>>))

----------------------------------------------------------------------------
(* Inputs of the bounded checks *)

\* Characters of the hex strings given to extract_hidden_message:
\* '0' '1' '2' '7' 'a' 'c' 'e' 'f' (lower case), 'C' 'E' 'F' (upper case)
\* and 'g' (no hex digit).
HexAlphabet == {48, 49, 50, 55, 97, 99, 101, 102, 67, 69, 70, 103}

HexStrings == SeqUpTo(HexAlphabet, MaxHexLen)

\* "48656c6c6f", the hex of "Hello"
HexHello == <<52, 56, 54, 53, 54, 99, 54, 99, 54, 102>>

\* "4869", the hex of "Hi"
HexHi == <<52, 56, 54, 57>>

\* "5465737431323334", the hex of "Test1234"
HexTest1234 == <<53, 52, 54, 53, 55, 51, 55, 52, 51, 49, 51, 50, 51, 51, 51, 52>>

\* "486", odd length
HexOdd == <<52, 56, 54>>

\* "48zz", not hex
HexNotHex == <<52, 56, 122, 122>>

\* "480a", the hex of "H\n"
HexControl == <<52, 56, 48, 97>>

\* "pubkeyhash"
Pubkeyhash == <<112, 117, 98, 107, 101, 121, 104, 97, 115, 104>>

CoinbaseValues == {None, Some(<<>>), Some(HexHello), Some(HexOdd)}

ScriptSigValues ==
    {None} \cup {Some([hex |-> h]) :
                    h \in {None, Some(<<>>), Some(HexHi), Some(HexNotHex)}}

ScriptPubKeyValues ==
    {None, Some([hex |-> None, script_type |-> None])}
    \cup {Some([hex |-> h, script_type |-> t]) :
              h \in {Some(<<>>), Some(HexTest1234), Some(HexControl)},
              t \in {None, Some(Nulldata), Some(Pubkeyhash)}}

\* "a", a transaction hash
HashA == <<97>>

VinValues == [coinbase : CoinbaseValues, script_sig : ScriptSigValues]

VoutValues == [script_pub_key : ScriptPubKeyValues]

\* Transactions with at most MaxFields inputs and outputs together.
BoundedTransactions ==
    UNION {[hash : {HashA}, vin : [1..i -> VinValues], vout : [1..o -> VoutValues]] :
              <<i, o>> \in {io \in (0..MaxFields) \X (0..MaxFields) :
                               io[1] + io[2] <= MaxFields}}

----------------------------------------------------------------------------
(* SpecExtract: extract_hidden_message on every bounded hex string *)

Idle ==
    /\ args_len = 2
    /\ build = "release"
    /\ fetches = 0
    /\ block = None
    /\ tx_num = None
    /\ stdout = <<>>
    /\ stderr = <<>>

InitExtract ==
    /\ Idle
    /\ pc = "extract"
    /\ hex_data \in HexStrings
    /\ extracted = None
    /\ selected_tx = None
    /\ scans = 0
    /\ messages = <<>>

Extract ==
    /\ pc = "extract"
    /\ extracted' = extract_hidden_message(hex_data)
    /\ pc' = "extracted"
    /\ UNCHANGED <<args_len, build, fetches, block, tx_num, selected_tx, scans,
                   messages, stdout, stderr, hex_data>>

SpecExtract == InitExtract /\ [][Extract]_vars

----------------------------------------------------------------------------
(* SpecScan: check_transaction_for_messages on every bounded transaction *)

InitScan ==
    /\ Idle
    /\ pc = "scan"
    /\ selected_tx \in {Some(t) : t \in BoundedTransactions}
    /\ scans = 0
    /\ messages = <<>>
    /\ hex_data = <<>>
    /\ extracted = None

Scan ==
    /\ pc = "scan"
    /\ messages' = check_transaction_for_messages(selected_tx.val)
    /\ scans' = scans + 1
    /\ pc' = "scanned"
    /\ UNCHANGED <<args_len, build, fetches, block, tx_num, selected_tx,
                   stdout, stderr, hex_data, extracted>>

SpecScan == InitScan /\ [][Scan]_vars

----------------------------------------------------------------------------
(* usize arithmetic and parsing (std, used at main.rs:144 and main.rs:149) *)

RECURSIVE Pow2(_)
Pow2(n) == IF n = 0 THEN 1 ELSE 2 * Pow2(n - 1)

\* usize::MAX
UsizeMax == Pow2(UsizeBits) - 1

\* a - b as release builds compute it (two's complement wrap-around)
WrappingSub(a, b) == (a - b) % (UsizeMax + 1)

\* char::is_whitespace, the White_Space code points
IsWhitespace(c) ==
    \/ c \in {9, 10, 11, 12, 13, 32, 133, 160, 5760, 8232, 8233, 8239, 8287, 12288}
    \/ c >= 8192 /\ c <= 8202

RECURSIVE TrimStart(_)
TrimStart(s) ==
    IF s # <<>> /\ IsWhitespace(Head(s)) THEN TrimStart(Tail(s)) ELSE s

RECURSIVE TrimEnd(_)
TrimEnd(s) ==
    IF s # <<>> /\ IsWhitespace(s[Len(s)])
    THEN TrimEnd(SubSeq(s, 1, Len(s) - 1)) ELSE s

\* trim_start in place of trim.
Trim_start_only(s) == TrimStart(s)

\* str::trim
Trim(s) == TrimEnd(TrimStart(s))

\* The digit loop of usize::from_str: checked_mul(10) then checked_add(digit).
RECURSIVE ParseDigits(_, _, _)
ParseDigits(s, i, acc) ==
    IF i > Len(s) THEN Ok(acc)
    ELSE IF s[i] < 48 \/ s[i] > 57 THEN Err
    ELSE IF acc * 10 + (s[i] - 48) > UsizeMax THEN Err
    ELSE ParseDigits(s, i + 1, acc * 10 + (s[i] - 48))

\* str::parse::<usize>: Empty for "", InvalidDigit for a lone sign, a leading
\* '+' is skipped, a leading '-' is an invalid digit of an unsigned type.
ParseUsize(s) ==
    IF s = <<>> THEN Err
    ELSE IF Len(s) = 1 /\ s[1] \in {43, 45} THEN Err
    ELSE IF s[1] = 43 THEN ParseDigits(s, 2, 0)
    ELSE ParseDigits(s, 1, 0)

----------------------------------------------------------------------------
(* Inputs of main *)

\* "c": a coinbase transaction with an OP_RETURN output
TxCoinbase ==
    [hash |-> <<99>>,
     vin |-> <<[coinbase |-> Some(HexHello), script_sig |-> None]>>,
     vout |-> <<[script_pub_key |->
                    Some([hex |-> Some(HexTest1234), script_type |-> Some(Nulldata)])]>>]

\* "p": a payment whose scripts hold nothing readable
TxPayment ==
    [hash |-> <<112>>,
     vin |-> <<[coinbase |-> None, script_sig |-> Some([hex |-> Some(HexNotHex)])]>>,
     vout |-> <<[script_pub_key |->
                    Some([hex |-> Some(HexControl), script_type |-> Some(Pubkeyhash)])]>>]

\* "e": a transaction without inputs and outputs
TxEmpty == [hash |-> <<101>>, vin |-> <<>>, vout |-> <<>>]

\* "b": a transaction whose input and output carry no hex field
TxBare ==
    [hash |-> <<98>>,
     vin |-> <<[coinbase |-> None, script_sig |-> Some([hex |-> None])]>>,
     vout |-> <<[script_pub_key |-> None]>>]

TxPool == {TxCoinbase, TxPayment, TxEmpty, TxBare}

Blocks == [tx : SeqUpTo(TxPool, MaxTx)]

\* What the explorer may answer: no answer, a body that is not an
\* ApiResponse, or an ApiResponse with zero, one or two blocks.
Responses ==
    {[kind |-> "network_error"], [kind |-> "malformed_json"]}
    \cup {[kind |-> "json", blocks |-> <<>>]}
    \cup {[kind |-> "json", blocks |-> <<b>>] : b \in Blocks}
    \cup {[kind |-> "json", blocks |-> <<b, [tx |-> <<TxEmpty>>]>>] : b \in Blocks}

\* Lines the user may enter: "0\n" "1\n" "2\n" "3\n" " 1 \n" "+1\n" "-1\n"
\* "-0\n" "1x\n" "\n" "99999\n" and end of input.
Lines ==
    {<<48, 10>>, <<49, 10>>, <<50, 10>>, <<51, 10>>, <<32, 49, 32, 10>>,
     <<43, 49, 10>>, <<45, 49, 10>>, <<45, 48, 10>>, <<49, 120, 10>>, <<10>>,
     <<57, 57, 57, 57, 57, 10>>, <<>>}

----------------------------------------------------------------------------
(* fetch_block_data, main.rs:69-74 *)

fetch_block_data(resp) ==
    IF resp.kind # "json" THEN [ok |-> FALSE, err |-> resp.kind]
    ELSE IF resp.blocks = <<>> THEN [ok |-> FALSE, err |-> "No blocks found"]
    ELSE Ok(Head(resp.blocks))

----------------------------------------------------------------------------
(* main, main.rs:131-173 *)

Init ==
    /\ pc = "main"
    /\ args_len \in 1..3
    /\ build \in {"debug", "release"}
    /\ fetches = 0
    /\ block = None
    /\ tx_num = None
    /\ selected_tx = None
    /\ scans = 0
    /\ messages = <<>>
    /\ stdout = <<>>
    /\ stderr = <<>>
    /\ hex_data = <<>>
    /\ extracted = None

\* CheckArgs without the `return` after the usage message.
CheckArgs_no_return ==
    /\ pc = "main"
    /\ IF args_len # 2
       THEN /\ stderr' = Append(stderr, [kind |-> "usage"])
            /\ pc' = "fetch"
       ELSE /\ stderr' = stderr
            /\ pc' = "fetch"
    /\ UNCHANGED <<args_len, build, fetches, block, tx_num, selected_tx, scans,
                   messages, stdout, hex_data, extracted>>

\* main.rs:132-137
CheckArgs ==
    /\ pc = "main"
    /\ IF args_len # 2
       THEN /\ stderr' = Append(stderr, [kind |-> "usage"])
            /\ pc' = "exit"
       ELSE /\ stderr' = stderr
            /\ pc' = "fetch"
    /\ UNCHANGED <<args_len, build, fetches, block, tx_num, selected_tx, scans,
                   messages, stdout, hex_data, extracted>>

\* main.rs:139-140 and 171
Fetch ==
    /\ pc = "fetch"
    /\ \E resp \in Responses :
          LET r == fetch_block_data(resp)
          IN  IF r.ok
              THEN /\ block' = Some(r.val)
                   /\ stderr' = stderr
                   /\ pc' = "prompt"
              ELSE /\ block' = block
                   /\ stderr' = Append(stderr, [kind |-> "fetch_error", cause |-> r.err])
                   /\ pc' = "exit"
    /\ fetches' = fetches + 1
    /\ UNCHANGED <<args_len, build, tx_num, selected_tx, scans, messages,
                   stdout, hex_data, extracted>>

\* main.rs:141-145.  `tx_count - 1` on an empty block panics when overflow
\* checks are compiled in and wraps around otherwise.
Prompt ==
    /\ pc = "prompt"
    /\ LET tx_count == Len(block.val.tx)
           counted == Append(stdout, [kind |-> "count", n |-> tx_count])
       IN  IF tx_count - 1 < 0 /\ build = "debug"
           THEN /\ stdout' = counted
                /\ stderr' = Append(stderr, [kind |-> "panic"])
                /\ pc' = "panic"
           ELSE /\ stdout' = Append(counted, [kind |-> "prompt",
                                               upper |-> WrappingSub(tx_count, 1)])
                /\ stderr' = stderr
                /\ pc' = "read"
    /\ UNCHANGED <<args_len, build, fetches, block, tx_num, selected_tx, scans,
                   messages, hex_data, extracted>>

\* main.rs:147-155.  Standard input delivers text.
ReadLine ==
    /\ pc = "read"
    /\ \E line \in Lines :
          LET tx_count == Len(block.val.tx)
              num == ParseUsize(Trim(line))
          IN  /\ tx_num' = Some(line)
              /\ IF num.ok /\ num.val < tx_count
                 THEN /\ stderr' = stderr
                      /\ pc' = "selected"
                 ELSE /\ stderr' = Append(stderr, [kind |-> "invalid"])
                      /\ pc' = "exit"
    /\ UNCHANGED <<args_len, build, fetches, block, selected_tx, scans,
                   messages, stdout, hex_data, extracted>>

\* Report without the `else` branch.
Report_no_notice(msgs) ==
    IF msgs # <<>>
    THEN <<[kind |-> "found"]>> \o [i \in 1..Len(msgs) |-> [kind |-> "message", text |-> msgs[i]]]
    ELSE <<>>

\* The lines printed by main.rs:162-169 for the scanner's result.
Report(msgs) ==
    IF msgs # <<>>
    THEN <<[kind |-> "found"]>> \o [i \in 1..Len(msgs) |-> [kind |-> "message", text |-> msgs[i]]]
    ELSE <<[kind |-> "none"]>>

\* main.rs:157-169
ScanAndReport ==
    /\ pc = "selected"
    /\ LET num == ParseUsize(Trim(tx_num.val)).val
           tx == block.val.tx[num + 1]
           found == check_transaction_for_messages(tx)
       IN  /\ selected_tx' = Some(tx)
           /\ messages' = found
           /\ stdout' = Append(stdout, [kind |-> "dump", tx |-> tx]) \o Report(found)
    /\ scans' = scans + 1
    /\ pc' = "exit"
    /\ UNCHANGED <<args_len, build, fetches, block, tx_num, stderr,
                   hex_data, extracted>>

Next == CheckArgs \/ Fetch \/ Prompt \/ ReadLine \/ ScanAndReport

Spec == Init /\ [][Next]_vars

----------------------------------------------------------------------------
(* Reference reading of hex text, by table look-up *)

\* "0123456789abcdef"
LowerDigits == <<48, 49, 50, 51, 52, 53, 54, 55, 56, 57, 97, 98, 99, 100, 101, 102>>

\* "0123456789ABCDEF"
UpperDigits == <<48, 49, 50, 51, 52, 53, 54, 55, 56, 57, 65, 66, 67, 68, 69, 70>>

IsHexDigit(c) == \E v \in 1..16 : LowerDigits[v] = c \/ UpperDigits[v] = c

DigitValue(c) == (CHOOSE v \in 1..16 : LowerDigits[v] = c \/ UpperDigits[v] = c) - 1

WellFormedHex(hex) ==
    /\ Len(hex) % 2 = 0
    /\ \A i \in 1..Len(hex) : IsHexDigit(hex[i])

BytesOf(hex) ==
    [k \in 1..(Len(hex) \div 2) |->
        16 * DigitValue(hex[2 * k - 1]) + DigitValue(hex[2 * k])]

AllPrintable(bytes) == \A k \in 1..Len(bytes) : bytes[k] >= 32 /\ bytes[k] <= 126

----------------------------------------------------------------------------
(* Properties of extract_hidden_message (SpecExtract) *)

\* C1: a well-formed hex string (either case) whose bytes are all in
\* [32,126] yields a message, and the message is the text with exactly
\* those character codes, in order.
C1_RoundTrip ==
    (pc = "extracted" /\ WellFormedHex(hex_data) /\ AllPrintable(BytesOf(hex_data)))
        => (extracted.some /\ extracted.val = BytesOf(hex_data))

\* "7e2F" yields "~/".
C1_Witness ==
    /\ pc = "extracted"
    /\ hex_data = <<55, 101, 50, 70>>
    /\ extracted.some
    /\ extracted.val = <<126, 47>>

\* C2: a field that decodes yields a message if and only if every byte is
\* in [32,126]; a byte below 32, the byte 127 and any byte from 128 on each
\* make the field yield no message.
C2_PrintableIff ==
    (pc = "extracted" /\ WellFormedHex(hex_data))
        => (extracted.some <=> AllPrintable(BytesOf(hex_data)))

\* "c2a0" is valid UTF-8 for U+00A0, which is not ASCII: no message.
C2_Witness ==
    /\ pc = "extracted"
    /\ hex_data = <<99, 50, 97, 48>>
    /\ from_utf8_lossy(hex_decode(hex_data).val) = <<160>>
    /\ ~extracted.some

----------------------------------------------------------------------------
(* Reference reading of a transaction: its fields in scan order *)

\* An Option<String> field that holds well-formed hex of printable bytes.
Passing(h) == h.some /\ WellFormedHex(h.val) /\ AllPrintable(BytesOf(h.val))

\* A present field that yields no message.
Failing(h) == h.some /\ ~Passing(h)

\* A present field that does not decode: odd length or a non-hex character.
Undecodable(h) == h.some /\ ~WellFormedHex(h.val)

SigHex(vin) == IF vin.script_sig.some THEN vin.script_sig.val.hex ELSE None

PubKeyHex(vout) ==
    IF vout.script_pub_key.some THEN vout.script_pub_key.val.hex ELSE None

IsNulldata(vout) ==
    /\ vout.script_pub_key.some
    /\ vout.script_pub_key.val.script_type.some
    /\ vout.script_pub_key.val.script_type.val = Nulldata

\* Two slots per input (coinbase, then unlocking script), then one per output.
SlotCount(tx) == 2 * Len(tx.vin) + Len(tx.vout)

Slot(tx, s) ==
    IF s <= 2 * Len(tx.vin)
    THEN LET vin == tx.vin[(s + 1) \div 2]
         IN  IF s % 2 = 1
             THEN [label |-> LabelCoinbase, hex |-> vin.coinbase, input |-> TRUE]
             ELSE [label |-> LabelScriptSig, hex |-> SigHex(vin), input |-> TRUE]
    ELSE LET vout == tx.vout[s - 2 * Len(tx.vin)]
         IN  [label |-> IF IsNulldata(vout) THEN LabelOpReturn ELSE LabelScriptPubKey,
              hex |-> PubKeyHex(vout), input |-> FALSE]

\* The string a passing slot stands for.
Emission(f) == f.label \o BytesOf(f.hex.val)

RECURSIVE ExpectedFrom(_, _)
ExpectedFrom(tx, s) ==
    IF s > SlotCount(tx) THEN <<>>
    ELSE (IF Passing(Slot(tx, s).hex) THEN <<Emission(Slot(tx, s))>> ELSE <<>>)
         \o ExpectedFrom(tx, s + 1)

\* The transaction with every failing field made absent.
WithoutFailing(tx) ==
    [hash |-> tx.hash,
     vin |-> [i \in 1..Len(tx.vin) |->
                [coinbase |-> IF Failing(tx.vin[i].coinbase) THEN None
                              ELSE tx.vin[i].coinbase,
                 script_sig |-> IF Failing(SigHex(tx.vin[i]))
                                THEN Some([hex |-> None])
                                ELSE tx.vin[i].script_sig]],
     vout |-> [k \in 1..Len(tx.vout) |->
                [script_pub_key |->
                    IF Failing(PubKeyHex(tx.vout[k]))
                    THEN Some([hex |-> None,
                               script_type |-> tx.vout[k].script_pub_key.val.script_type])
                    ELSE tx.vout[k].script_pub_key]]]

IsPrefix(p, str) == Len(p) <= Len(str) /\ SubSeq(str, 1, Len(p)) = p

Occurrences(seq, x) == Cardinality({j \in 1..Len(seq) : seq[j] = x})

----------------------------------------------------------------------------
(* Properties of check_transaction_for_messages (SpecScan) *)

\* C3: a field of odd length or with a non-hex character yields no message,
\* and the messages of a transaction are those of the same transaction with
\* its failing fields absent, in the same order.
C3_FailureAbsorbed ==
    pc = "scanned" =>
        LET tx == selected_tx.val
        IN  /\ messages = check_transaction_for_messages(WithoutFailing(tx))
            /\ Len(messages) <= Cardinality({s \in 1..SlotCount(tx) :
                                    Slot(tx, s).hex.some /\ ~Undecodable(Slot(tx, s).hex)})

\* The coinbase "486" fails and the unlocking script "4869" of the same
\* input, and the output after it, are reported.
C3_Witness ==
    /\ pc = "scanned"
    /\ Len(selected_tx.val.vin) = 1
    /\ selected_tx.val.vin[1].coinbase = Some(HexOdd)
    /\ SigHex(selected_tx.val.vin[1]) = Some(HexHi)
    /\ Len(selected_tx.val.vout) = 2
    /\ PubKeyHex(selected_tx.val.vout[1]) = Some(HexControl)
    /\ PubKeyHex(selected_tx.val.vout[2]) = Some(HexTest1234)
    /\ Len(messages) = 2
    /\ messages[1] = LabelScriptSig \o <<72, 105>>

\* C4: every passing field is reported by exactly one string, its label
\* followed by its message: "OP_RETURN: " for an output tagged "nulldata",
\* "ScriptPubKey: " for any other or no tag, "Coinbase: " and "ScriptSig: "
\* for the two input fields; every reported string carries one of these
\* four labels.
C4_Labels ==
    pc = "scanned" =>
        LET tx == selected_tx.val
            passing == {s \in 1..SlotCount(tx) : Passing(Slot(tx, s).hex)}
        IN  /\ \A s \in passing :
                  Occurrences(messages, Emission(Slot(tx, s)))
                      = Cardinality({r \in passing :
                                        Emission(Slot(tx, r)) = Emission(Slot(tx, s))})
            /\ Len(messages) = Cardinality(passing)
            /\ \A j \in 1..Len(messages) :
                  \E l \in {LabelCoinbase, LabelScriptSig, LabelOpReturn, LabelScriptPubKey} :
                      IsPrefix(l, messages[j])

\* "Test1234" in an output tagged "nulldata", one tagged "pubkeyhash" and an
\* untagged one.
C4_Witness ==
    /\ pc = "scanned"
    /\ selected_tx.val.vin = <<>>
    /\ Len(selected_tx.val.vout) = 3
    /\ \A k \in 1..3 : PubKeyHex(selected_tx.val.vout[k]) = Some(HexTest1234)
    /\ selected_tx.val.vout[1].script_pub_key.val.script_type = Some(Nulldata)
    /\ selected_tx.val.vout[2].script_pub_key.val.script_type = Some(Pubkeyhash)
    /\ selected_tx.val.vout[3].script_pub_key.val.script_type = None
    /\ messages = <<LabelOpReturn \o <<84, 101, 115, 116, 49, 50, 51, 52>>,
                    LabelScriptPubKey \o <<84, 101, 115, 116, 49, 50, 51, 52>>,
                    LabelScriptPubKey \o <<84, 101, 115, 116, 49, 50, 51, 52>>>>

\* C5: the returned sequence is the passing fields in scan order: per input
\* the coinbase then the unlocking script, inputs in order, then the outputs
\* in order; hence at most 2 * inputs + outputs entries.
C5_Order ==
    pc = "scanned" =>
        LET tx == selected_tx.val
        IN  /\ messages = ExpectedFrom(tx, 1)
            /\ Len(messages) <= 2 * Len(tx.vin) + Len(tx.vout)
            /\ \A i, j \in 1..Len(messages) :
                  (i < j /\ (IsPrefix(LabelOpReturn, messages[i])
                             \/ IsPrefix(LabelScriptPubKey, messages[i])))
                      => ~(IsPrefix(LabelCoinbase, messages[j])
                           \/ IsPrefix(LabelScriptSig, messages[j]))

\* Two inputs with both fields passing and one passing output: five messages.
C5_Witness ==
    /\ pc = "scanned"
    /\ Len(selected_tx.val.vin) = 2
    /\ Len(selected_tx.val.vout) = 1
    /\ Len(messages) = 5
    /\ IsPrefix(LabelCoinbase, messages[1])
    /\ IsPrefix(LabelScriptSig, messages[2])
    /\ IsPrefix(LabelCoinbase, messages[3])
    /\ IsPrefix(LabelScriptSig, messages[4])
    /\ IsPrefix(LabelOpReturn, messages[5])

\* C9: a field present with the empty hex string is reported as its label
\* followed by nothing, so the sequence is not empty; absent fields report
\* nothing.
C9_EmptyVersusAbsent ==
    pc = "scanned" =>
        LET tx == selected_tx.val
        IN  /\ \A s \in 1..SlotCount(tx) :
                  Slot(tx, s).hex = Some(<<>>)
                      => \E j \in 1..Len(messages) : messages[j] = Slot(tx, s).label
            /\ Len(messages) <= Cardinality({s \in 1..SlotCount(tx) : Slot(tx, s).hex.some})

\* An input with the coinbase "" and an absent unlocking script, and an
\* output whose script has no hex: the only message is "Coinbase: ".
C9_Witness ==
    /\ pc = "scanned"
    /\ Len(selected_tx.val.vin) = 1
    /\ selected_tx.val.vin[1].coinbase = Some(<<>>)
    /\ ~selected_tx.val.vin[1].script_sig.some
    /\ Len(selected_tx.val.vout) = 1
    /\ selected_tx.val.vout[1].script_pub_key.some
    /\ ~PubKeyHex(selected_tx.val.vout[1]).some
    /\ messages = <<LabelCoinbase>>

----------------------------------------------------------------------------
(* Properties of main (Spec) *)

Has(out, k) == \E i \in 1..Len(out) : out[i].kind = k

Count(out, k) == Cardinality({i \in 1..Len(out) : out[i].kind = k})

\* C6: fetch_block_data is called at most once.  A wrong argument count
\* prints the usage message without any fetch; a failed fetch is reported
\* and nothing is prompted, read, dumped or scanned afterwards; the prompt
\* needs a fetched block, and the read, the dump and the scan need the prompt.
C6_FetchOnceErrorsTerminal ==
    /\ fetches <= 1
    /\ args_len # 2 =>
          /\ fetches = 0
          /\ pc \in {"main", "exit"}
          /\ stdout = <<>>
          /\ pc = "exit" => (Len(stderr) = 1 /\ stderr[1].kind = "usage")
    /\ (fetches = 1 /\ ~block.some) =>
          /\ pc = "exit"
          /\ Len(stderr) = 1 /\ stderr[1].kind = "fetch_error"
          /\ stdout = <<>>
          /\ ~tx_num.some
          /\ ~selected_tx.some
          /\ scans = 0
    /\ Has(stderr, "fetch_error") => ~block.some
    /\ block.some => fetches = 1
    /\ Has(stdout, "prompt") => block.some
    /\ tx_num.some => Has(stdout, "prompt")
    /\ (scans > 0 \/ Has(stdout, "dump")) => (tx_num.some /\ Has(stdout, "prompt"))

\* The explorer answers with an empty blocks array: the error is reported
\* and the run is over.
C6_Witness ==
    /\ pc = "exit"
    /\ args_len = 2
    /\ fetches = 1
    /\ ~block.some
    /\ Len(stderr) = 1
    /\ stderr[1].kind = "fetch_error"
    /\ stderr[1].cause = "No blocks found"
    /\ stdout = <<>>
    /\ scans = 0

\* The index an entered line denotes, -1 if none.  A line with a minus sign
\* denotes no index of an unsigned type.
EnteredIndex(line) ==
    CASE line = <<48, 10>> -> 0
      [] line = <<49, 10>> -> 1
      [] line = <<50, 10>> -> 2
      [] line = <<51, 10>> -> 3
      [] line = <<32, 49, 32, 10>> -> 1
      [] line = <<43, 49, 10>> -> 1
      [] line = <<57, 57, 57, 57, 57, 10>> -> 99999
      [] OTHER -> -1

C8_Report ==
    (pc = "exit" /\ scans = 1) =>
        LET tx == selected_tx.val
            dumpAt == CHOOSE i \in 1..Len(stdout) : stdout[i].kind = "dump"
            tail == SubSeq(stdout, dumpAt + 1, Len(stdout))
        IN  /\ messages = check_transaction_for_messages(tx)
            /\ (\A s \in 1..SlotCount(tx) : ~Slot(tx, s).hex.some) => messages = <<>>
            /\ Count(stdout, "none") + Count(stdout, "found") = 1
            /\ Has(stdout, "none") <=> messages = <<>>
            /\ Count(stdout, "message") = Len(messages)
            /\ Len(tail) = IF messages = <<>> THEN 1 ELSE Len(messages) + 1
            /\ messages # <<>> =>
                  /\ tail[1].kind = "found"
                  /\ \A j \in 1..Len(messages) :
                        tail[j + 1].kind = "message" /\ tail[j + 1].text = messages[j]

\* The transaction without hex fields is selected: the notice is printed.
C8_Witness ==
    /\ pc = "exit"
    /\ scans = 1
    /\ selected_tx = Some(TxBare)
    /\ messages = <<>>
    /\ stdout[Len(stdout)].kind = "none"
    /\ ~Has(stdout, "found")

\* C10: after a successful fetch, also of a block without transactions,
\* count - 1 does not underflow, and the run ends with the invalid-number
\* error or with the printed scan result, never abnormally.
C10_NoUnderflow ==
    /\ block.some => pc # "panic"
    /\ \A i \in 1..Len(stdout) :
          stdout[i].kind = "prompt" => stdout[i].upper = Len(block.val.tx) - 1
    /\ (block.some /\ pc = "exit") =>
          (Has(stderr, "invalid") \/ Has(stdout, "found") \/ Has(stdout, "none"))

====
